---------------------------- MODULE Spec2Model ----------------------------
(***************************************************************************)
(* Model of the video re-assembly core of transvoice                       *)
(* (src/video_processor.py): VideoProcessor.process_video_translation and  *)
(* the primitives it calls.                                                *)
(*                                                                         *)
(* Time is kept in integer milliseconds.  The code converts the file-name  *)
(* milliseconds to float seconds (ms / 1000.0) and compares and subtracts  *)
(* those; the model does that arithmetic exactly, so a threshold test that *)
(* Python decides by a last-bit rounding error (16.999 - 15.999 < 1.0) is  *)
(* decided here by its exact value.                                        *)
(*                                                                         *)
(* Every ffmpeg / ffprobe call is an input of the run: its outcome is      *)
(* chosen with \E at the step that issues it.  A tool that succeeds        *)
(* produces the file its command line describes.                           *)
(***************************************************************************)
EXTENDS Integers, Sequences, FiniteSets, TLC

(* ------------------------------ bounds -------------------------------- *)

\* grid of the modelled time line, in milliseconds
Tick == 500
\* last grid point of the time line
MaxT == 4
\* most TTS files in the audio directory
MaxUnits == 2
\* small offset between a unit's span and its measured duration
Jitter == 5

(* ------------------------- program constants --------------------------- *)

\* if gap_duration < 1.0 / if tail_duration < 1.0
MinGapMs == 1000
\* elif audio_duration < video_duration - 0.1
PadToleranceMs == 100
\* abs(speed_factor - 1.0) < 0.01, as the ratio 1 / 100
SpeedTolInv == 100
\* abs(original_duration - target_duration) < 0.01, in ms
DurationTolMs == 10

(* ------------------------------ helpers -------------------------------- *)

Abs(x) == IF x < 0 THEN -x ELSE x

Range(s) == {s[k] : k \in DOMAIN s}

\* a file of the scratch directory: tmp/{role}_{idx}.mp4, or
\* tmp/normalized/{role}_{idx}_normalized.mp4
Path(role, idx) == [dir |-> "tmp", role |-> role, idx |-> idx]

NoUnit == [start |-> -1, end |-> -1, new_duration |-> -1]

\* the local variable speed_factor as the exact ratio num / den
Factor(num, den) == [num |-> num, den |-> den]

FactorOne == Factor(1, 1)

(* ------------------------------- inputs -------------------------------- *)

GridTimes == {t * Tick : t \in 0..MaxT}

\* the source video ends near the end of the grid
VideoDurations == {t * Tick : t \in (MaxT - 1)..(MaxT + 1)}

\* measured duration of a synthesized clip whose span is d: a tick shorter, or
\* next to d on either side
NewDurations(d) ==
    {n \in {d - Tick, d - Jitter, d + Jitter} : n >= 0}

\* a TimedAudioUnit has end_ms > start_ms
Spans == {p \in GridTimes \X GridTimes : p[1] < p[2]}

\* the TTS files tts_{start}_{end}_{hash}.wav, each with its probed duration
ValidUnits ==
    UNION {{[start |-> p[1], end |-> p[2], new_duration |-> n] :
                n \in NewDurations(p[2] - p[1])} : p \in Spans}

Disjoint(u, v) == u.end <= v.start \/ v.end <= u.start

\* what os.listdir may return: the files in any order
Listings ==
    {l \in UNION {[1..k -> ValidUnits] : k \in 0..MaxUnits} :
        \A a, b \in DOMAIN l : a # b => (l[a] # l[b] /\ Disjoint(l[a], l[b]))}

(* ------------------------------- state --------------------------------- *)

VARIABLES
    pc,                       \* position in process_video_translation
    result,                   \* "none", or how the call ended: "True", "False", "raised"
    video_duration,           \* probed duration of the source video, ms
    audio_files,              \* the parsed TTS files, sorted by start
    current_time,             \* the planner's cursor, ms
    i,                        \* index of the running loop, from 1
    original_segments,        \* step 1's list
    speed_adjusted_segments,  \* step 2's list
    final_segments,           \* step 3's list of paths
    normalized_segments,      \* step 4's list of paths
    output,                   \* the stream layout of the final file, once written
    planned,                  \* history: the spans step 1 asked the extractor for
    step1_log,                \* history: per span asked for, what the extractor and the silencer returned
    artifacts,                \* history: the files written into temp_dir, and for which span
    synth_pc,                 \* where synthesize_video_with_tts is
    synth_result,             \* what its last run returned
    segment_dir,              \* the segment_*.mp4 files in output_path.parent / "segments"
    valid_tts_files,          \* the TTS files of the current run, by name
    synth_i,                  \* index of the export loop, from 1
    segments_info,            \* the segment files the current run has loaded
    debug_export,             \* the flag of the current run
    split_pc,                 \* where split_segments_recursively is
    split_input,              \* the list it was called with
    max_segment_size,         \* and the size it was called with
    split_stack,              \* the lists of the calls still to be made, the next one first
    all_chunks,               \* the chunks returned so far, in order
    split_calls,              \* history: the length of each recursive call's list and of its caller's
    asr_pc,                   \* where perform_asr is
    recognized,               \* what asr_model.transcribe yields: times in half ms, one text each
    asr_i,                    \* index of the loop over the recognized segments, from 1
    asr_segments,             \* the list the loop builds
    asr_results,              \* the dictionary returned
    tts_pc,                   \* where tts_from_translated_json is
    tts_json,                 \* data['segments'] of the current run
    tts_i,                    \* index of the loop over the segments, from 1
    output_dir,               \* the tts_*.wav files in the output directory
    current_task_files,       \* the file names of the current run
    tts_calls,                \* history: calls of client.predict in the current run
    tts_prev,                 \* history: the JSON of the run before, and whether it left every file
    dir_at_start,             \* history: output_dir when the current run began
    undeleted,                \* history: the files the last cleanup could not remove
    extract_failed,           \* history: some extraction returned False
    step2_log,                \* history: per step-2 entry, the Speed Adjuster call and the factor
    merge_returned,           \* history: the run of merge_audio_with_video that has just returned
    merge_failed_at,          \* history: step-3 index at which the Audio Replacer returned False
    commands,                 \* history: normalize / concat commands issued
    merge_args,               \* the arguments of a direct call of merge_audio_with_video
    scratch,                  \* the scratch directory "tmp": whether it exists, and its files
    written,                  \* history: the files written into "tmp" since __enter__
    gpu,                      \* self.gpu_acceleration and self.gpu_info['available']
    adjust_args               \* the speed factor of a direct call of adjust_video_speed_with_audio

\* the state of synthesize_video_with_tts (video_synthesizer.py)
synthesizer == <<synth_pc, synth_result, segment_dir, valid_tts_files, synth_i,
                 segments_info, debug_export>>

\* the variables of video_processor.py
processor ==
    <<pc, result, video_duration, audio_files, current_time, i, original_segments,
      speed_adjusted_segments, final_segments, normalized_segments, output,
      planned, extract_failed, step2_log, merge_returned, merge_failed_at,
      commands, merge_args, scratch, written, gpu, adjust_args, step1_log,
      artifacts>>

\* the state of split_segments_recursively (translator.py)
translator == <<split_pc, split_input, max_segment_size, split_stack, all_chunks,
                split_calls>>

\* the state of perform_asr (asr.py)
asr == <<asr_pc, recognized, asr_i, asr_segments, asr_results>>

\* the state of tts_from_translated_json (tts.py)
tts == <<tts_pc, tts_json, tts_i, output_dir, current_task_files, tts_calls,
         tts_prev, dir_at_start, undeleted>>

\* the state of the modules other than video_processor.py
elsewhere == <<synthesizer, translator, asr, tts>>

outside_synthesizer == <<processor, translator, asr, tts>>

outside_translator == <<processor, synthesizer, asr, tts>>

outside_asr == <<processor, synthesizer, translator, tts>>

outside_tts == <<processor, synthesizer, translator, asr>>

vars == <<pc, result, video_duration, audio_files, current_time, i,
          original_segments, speed_adjusted_segments, final_segments,
          normalized_segments, output, planned, extract_failed, step2_log,
          merge_returned, merge_failed_at, commands, merge_args,
          scratch, written, gpu, adjust_args, step1_log, artifacts, elsewhere>>

\* what process_video_translation neither reads nor writes in this model
aside == <<merge_args, scratch, written, gpu, adjust_args, elsewhere>>

NoOutput == [nv |-> -1, na |-> -1, duration |-> -1]

NoMerge == [ret |-> "none", video |-> -1, audio |-> -1, branch |-> "none",
            processed |-> -1, stream_check |-> "not_reached",
            nv |-> -1, na |-> -1]

\* the directory as __enter__ leaves it; its files are followed in SpecScratch
FreshDir == [exists |-> TRUE, files |-> {}]

\* a processor without hardware acceleration
CpuOnly == [acceleration |-> FALSE, available |-> FALSE]

\* no direct call of adjust_video_speed_with_audio is under way
AdjustIdle == gpu = CpuOnly /\ adjust_args = <<>>

\* synthesize_video_with_tts has not been called and "segments" is empty
SynthIdle ==
    /\ synth_pc = "start"
    /\ synth_result = "none"
    /\ segment_dir = {}
    /\ valid_tts_files = <<>>
    /\ synth_i = 1
    /\ segments_info = {}
    /\ debug_export = FALSE

\* split_segments_recursively has not been called
SplitIdle ==
    /\ split_pc = "idle"
    /\ split_input = <<>>
    /\ max_segment_size = 1
    /\ split_stack = <<>>
    /\ all_chunks = <<>>
    /\ split_calls = {}

NoResults == [total_segments |-> -1, segments |-> <<>>]

\* perform_asr has not been called
AsrIdle ==
    /\ asr_pc = "idle"
    /\ recognized = <<>>
    /\ asr_i = 1
    /\ asr_segments = <<>>
    /\ asr_results = NoResults

NoRun == [json |-> <<>>, complete |-> FALSE]

\* tts_from_translated_json has not been called and its directory is empty
TtsIdle ==
    /\ tts_pc = "start"
    /\ tts_json = <<>>
    /\ tts_i = 1
    /\ output_dir = {}
    /\ current_task_files = {}
    /\ tts_calls = 0
    /\ tts_prev = NoRun
    /\ dir_at_start = {}
    /\ undeleted = {}

\* nothing outside video_processor.py has run
ElsewhereIdle == SynthIdle /\ SplitIdle /\ AsrIdle /\ TtsIdle

NoCall == [video_exists |-> FALSE, audio_exists |-> FALSE, video |-> -1, audio |-> -1]

Init ==
    /\ pc = "probe"
    /\ result = "none"
    /\ video_duration = 0
    /\ audio_files = <<>>
    /\ current_time = 0
    /\ i = 1
    /\ original_segments = <<>>
    /\ speed_adjusted_segments = <<>>
    /\ final_segments = <<>>
    /\ normalized_segments = <<>>
    /\ output = NoOutput
    /\ planned = <<>>
    /\ step1_log = <<>>
    /\ artifacts = {}
    /\ extract_failed = FALSE
    /\ step2_log = <<>>
    /\ merge_returned = NoMerge
    /\ merge_failed_at = 0
    /\ commands = <<>>
    /\ merge_args = NoCall
    /\ scratch = FreshDir
    /\ written = {}
    /\ AdjustIdle
    /\ ElsewhereIdle

\* return False / return True / an exception leaves the method
Return(r) == pc' = "done" /\ result' = r

(* --------------------- probing and the unit scan ----------------------- *)

\* get_video_info(video_path) inside try / except Exception
ProbeVideo ==
    /\ pc = "probe"
    /\ \/ /\ \E d \in VideoDurations : video_duration' = d
          /\ pc' = "scan"
          /\ UNCHANGED result
       \/ /\ Return("False")
          /\ UNCHANGED video_duration
    /\ UNCHANGED <<audio_files, current_time, i, original_segments,
                   speed_adjusted_segments, final_segments, normalized_segments,
                   output, planned, extract_failed, step2_log, merge_returned,
                   merge_failed_at, commands>>
    /\ UNCHANGED <<step1_log, artifacts, aside>>

\* mutant: the files stay in the order os.listdir returned them
InsertAsListed(s, u) == Append(s, u)

\* list.sort(key=original_start) is stable: u goes behind every start <= its own
Insert(s, u) ==
    LET k == Cardinality({j \in DOMAIN s : s[j].start <= u.start})
    IN  SubSeq(s, 1, k) \o <<u>> \o SubSeq(s, k + 1, Len(s))

RECURSIVE SortByStart(_)
SortByStart(l) ==
    IF l = <<>> THEN <<>>
    ELSE Insert(SortByStart(SubSeq(l, 1, Len(l) - 1)), l[Len(l)])

\* the os.listdir loop, the empty check, the sort and the totals log
ScanAudio ==
    /\ pc = "scan"
    /\ \E listing \in Listings :
          \/ \* get_audio_duration raises on some file: nothing catches it
             /\ listing # <<>>
             /\ Return("raised")
             /\ UNCHANGED <<audio_files, current_time>>
          \/ /\ listing = <<>>
             /\ Return("False")
             /\ UNCHANGED <<audio_files, current_time>>
          \/ /\ listing # <<>>
             /\ audio_files' = SortByStart(listing)
             /\ current_time' = 0
             /\ pc' = "step1"
             /\ UNCHANGED result
    /\ i' = 1
    /\ UNCHANGED <<video_duration, original_segments, speed_adjusted_segments,
                   final_segments, normalized_segments, output, planned,
                   extract_failed, step2_log, merge_returned, merge_failed_at,
                   commands>>
    /\ UNCHANGED <<step1_log, artifacts, aside>>

(* ------------------------ step 1: cut the video ------------------------ *)

\* the tests gap_duration < 1.0 and tail_duration < 1.0 drop the span
Dropped(duration) == duration < MinGapMs

Span(type, start, end) == [type |-> type, start |-> start, end |-> end]

Segment(path, type, start, end, audio) ==
    [path |-> path, start |-> start, end |-> end, duration |-> end - start,
     type |-> type, audio_file |-> audio]

\* the spans iteration idx of the loop hands to create_video_segment_with_audio
UnitSpans(cur, audio) ==
    (IF audio.start > cur /\ ~Dropped(audio.start - cur)
        THEN <<Span("gap", cur, audio.start)>> ELSE <<>>)
    \o <<Span("speech", audio.start, audio.end)>>

\* mutant: a gap whose silencing failed is left out
GapEntriesSilentOnly(idx, cur, audio, ext_ok, sil_ok) ==
    IF audio.start > cur /\ ~Dropped(audio.start - cur) /\ ext_ok /\ sil_ok
    THEN <<Segment(Path("step1_gap_silent", idx), "gap", cur, audio.start, NoUnit)>>
    ELSE <<>>

\* the gap branch: what it appends to original_segments; idx is enumerate's index
GapEntries(idx, cur, audio, ext_ok, sil_ok) ==
    IF audio.start > cur
    THEN IF Dropped(audio.start - cur)
         THEN <<>>
         ELSE IF ext_ok
              THEN IF sil_ok
                   THEN <<Segment(Path("step1_gap_silent", idx), "gap",
                                  cur, audio.start, NoUnit)>>
                   ELSE <<Segment(Path("step1_gap", idx), "gap",
                                  cur, audio.start, NoUnit)>>
              ELSE <<>>
    ELSE <<>>

\* the speech branch: an extraction that returns False appends nothing
SpeechEntries(idx, audio, ext_ok) ==
    IF ext_ok
    THEN <<Segment(Path("step1_speech", idx), "speech",
                   audio.start, audio.end, audio)>>
    ELSE <<>>

\* mutant: the cursor stays at the start of the unit
CursorAfterStart(audio) == audio.start

\* current_time = audio['original_end'], whatever the extraction returned
CursorAfter(audio) == audio.end

\* what one span's calls returned: create_video_segment_with_audio, and
\* create_silent_audio_video if it was run
Step1Call(span, ext_ok, sil_ok, silenced) ==
    [type |-> span.type, start |-> span.start, end |-> span.end, ok |-> ext_ok,
     silent |-> IF silenced /\ ext_ok
                  THEN (IF sil_ok THEN "ok" ELSE "failed")
                  ELSE "not_run"]

\* a file written into temp_dir: its path, what it is and the span it is of
Artifact(path, kind, start, end) ==
    [path |-> path, kind |-> kind, start |-> start, end |-> end]

\* the files the calls of one span have written: "step1_<type>_<idx>.mp4" by
\* the extraction, "step1_<type>_<idx>_silent.mp4" by the silencing
Step1Writes(idx, call) ==
    (IF call.ok
        THEN {Artifact(Path("step1_" \o call.type, idx), "extracted",
                       call.start, call.end)}
        ELSE {})
    \cup
    (IF call.silent = "ok"
        THEN {Artifact(Path("step1_" \o call.type \o "_silent", idx), "silent",
                       call.start, call.end)}
        ELSE {})

\* one iteration of "for i, audio in enumerate(audio_files)"
Step1Unit ==
    /\ pc = "step1"
    /\ LET audio == audio_files[i]
           spans == UnitSpans(current_time, audio)
       IN  \E gap_ok, sil_ok, speech_ok \in BOOLEAN :
             /\ original_segments' =
                    original_segments
                    \o GapEntries(i - 1, current_time, audio, gap_ok, sil_ok)
                    \o SpeechEntries(i - 1, audio, speech_ok)
             /\ planned' = planned \o spans
             /\ step1_log' =
                    step1_log
                    \o (IF Len(spans) = 2
                          THEN <<Step1Call(spans[1], gap_ok, sil_ok, TRUE)>> ELSE <<>>)
                    \o <<Step1Call(spans[Len(spans)], speech_ok, FALSE, FALSE)>>
             /\ artifacts' =
                    artifacts
                    \cup (IF Len(spans) = 2
                            THEN Step1Writes(i - 1, Step1Call(spans[1], gap_ok, sil_ok, TRUE))
                            ELSE {})
                    \cup Step1Writes(i - 1, Step1Call(spans[Len(spans)], speech_ok,
                                                      FALSE, FALSE))
             /\ extract_failed' =
                    (extract_failed \/ ~speech_ok \/ (Len(spans) = 2 /\ ~gap_ok))
             /\ current_time' = CursorAfter(audio)
    /\ IF i < Len(audio_files)
          THEN i' = i + 1 /\ pc' = "step1"
          ELSE i' = 1 /\ pc' = "tail"
    /\ UNCHANGED <<result, video_duration, audio_files, speed_adjusted_segments,
                   final_segments, normalized_segments, output, step2_log,
                   merge_returned, merge_failed_at, commands>>
    /\ UNCHANGED aside

TailSpans(cur, vd) ==
    IF cur < vd /\ ~Dropped(vd - cur) THEN <<Span("tail", cur, vd)>> ELSE <<>>

\* the tail branch: what it appends to original_segments
TailEntries(cur, vd, ext_ok, sil_ok) ==
    IF cur < vd
    THEN IF Dropped(vd - cur)
         THEN <<>>
         ELSE IF ext_ok
              THEN IF sil_ok
                   THEN <<Segment(Path("step1_tail_silent", 0), "tail",
                                  cur, vd, NoUnit)>>
                   ELSE <<Segment(Path("step1_tail", 0), "tail",
                                  cur, vd, NoUnit)>>
              ELSE <<>>
    ELSE <<>>

\* "if current_time < video_duration" after the loop
Step1Tail ==
    /\ pc = "tail"
    /\ LET spans == TailSpans(current_time, video_duration)
       IN  \E tail_ok, sil_ok \in BOOLEAN :
             /\ original_segments' =
                    original_segments
                    \o TailEntries(current_time, video_duration, tail_ok, sil_ok)
             /\ planned' = planned \o spans
             /\ step1_log' =
                    step1_log
                    \o (IF spans # <<>>
                          THEN <<Step1Call(spans[1], tail_ok, sil_ok, TRUE)>> ELSE <<>>)
             /\ artifacts' =
                    artifacts
                    \cup (IF spans # <<>>
                            THEN Step1Writes(0, Step1Call(spans[1], tail_ok, sil_ok, TRUE))
                            ELSE {})
             /\ extract_failed' = (extract_failed \/ (spans # <<>> /\ ~tail_ok))
    /\ i' = 1
    /\ pc' = "step2"
    /\ UNCHANGED <<result, video_duration, audio_files, current_time,
                   speed_adjusted_segments, final_segments, normalized_segments,
                   output, step2_log, merge_returned, merge_failed_at, commands>>
    /\ UNCHANGED aside

\* every extraction returned False: the loops of steps 2 and 3 have nothing to
\* do and "if final_segments:" takes its else branch
NoSegments ==
    /\ pc = "step2"
    /\ original_segments = <<>>
    /\ Return("False")
    /\ UNCHANGED <<video_duration, audio_files, current_time, i,
                   original_segments, speed_adjusted_segments, final_segments,
                   normalized_segments, output, planned, extract_failed,
                   step2_log, merge_returned, merge_failed_at, commands>>
    /\ UNCHANGED <<step1_log, artifacts, aside>>

(* --------------------- step 2: retime the speech ----------------------- *)

\* mutant: the tolerance taken on the durations, as 0.01 s
NearOneAbsolute(f) == Abs(f.num - f.den) < DurationTolMs

\* mutant: the tolerance taken relative to the segment, not to the audio
NearOneInverted(f) == SpeedTolInv * Abs(f.num - f.den) < f.num

\* abs(speed_factor - 1.0) < 0.01 for speed_factor = num / den, den > 0
NearOne(f) == SpeedTolInv * Abs(f.num - f.den) < f.den

\* mutant: the failure branch forgets to fall back to the step-1 clip
AdjustedPathNoFallback(idx, seg, adjust_ok) == Path("step2_speech_speed", idx)

\* the path step 2 passes on once adjust_video_speed_with_audio has returned
AdjustedPath(idx, seg, adjust_ok) ==
    IF adjust_ok THEN Path("step2_speech_speed", idx) ELSE seg.path

\* the value of the local speed_factor once the adjuster has returned
AdjustedFactor(f, adjust_ok) == IF adjust_ok THEN f ELSE FactorOne

Adjusted(path, seg) ==
    [path |-> path, type |-> "speech",
     duration |-> seg.audio_file.new_duration, audio_file |-> seg.audio_file]

Kept(seg) ==
    [path |-> seg.path, type |-> seg.type, duration |-> seg.duration,
     audio_file |-> NoUnit]

Step2Log(call, f) == [adjust |-> call, speed_factor |-> f]

\* both loops below end the same way
NextIndex(list, after) ==
    IF i < Len(list) THEN i' = i + 1 /\ pc' = pc ELSE i' = 1 /\ pc' = after

\* one iteration of "for i, segment in enumerate(original_segments)"
Step2Segment ==
    /\ pc = "step2"
    /\ original_segments # <<>>
    /\ LET seg == original_segments[i]
           n   == seg.audio_file.new_duration
           f   == Factor(seg.duration, n)
       IN  \/ /\ seg.type # "speech"
              /\ speed_adjusted_segments' = Append(speed_adjusted_segments, Kept(seg))
              /\ step2_log' = Append(step2_log, Step2Log("none", FactorOne))
              /\ NextIndex(original_segments, "step3")
              /\ UNCHANGED <<result, artifacts>>
           \/ \* segment['duration'] / audio['new_duration'] with new_duration 0
              /\ seg.type = "speech"
              /\ n = 0
              /\ Return("raised")
              /\ UNCHANGED <<i, speed_adjusted_segments, step2_log, artifacts>>
           \/ /\ seg.type = "speech"
              /\ n # 0
              /\ NearOne(f)
              /\ speed_adjusted_segments' =
                     Append(speed_adjusted_segments, Adjusted(seg.path, seg))
              /\ step2_log' = Append(step2_log, Step2Log("skipped", FactorOne))
              /\ NextIndex(original_segments, "step3")
              /\ UNCHANGED <<result, artifacts>>
           \/ /\ seg.type = "speech"
              /\ n # 0
              /\ ~NearOne(f)
              /\ \E adjust_ok \in BOOLEAN :
                    /\ speed_adjusted_segments' =
                           Append(speed_adjusted_segments,
                                  Adjusted(AdjustedPath(i - 1, seg, adjust_ok), seg))
                    /\ step2_log' =
                           Append(step2_log,
                                  Step2Log(IF adjust_ok THEN "ok" ELSE "failed",
                                           AdjustedFactor(f, adjust_ok)))
                    /\ artifacts' =
                           artifacts
                           \cup (IF adjust_ok
                                   THEN {Artifact(Path("step2_speech_speed", i - 1),
                                                  "retimed", seg.start, seg.end)}
                                   ELSE {})
              /\ NextIndex(original_segments, "step3")
              /\ UNCHANGED result
    /\ UNCHANGED <<video_duration, audio_files, current_time, original_segments,
                   final_segments, normalized_segments, output, planned,
                   extract_failed, merge_returned, merge_failed_at, commands>>
    /\ UNCHANGED <<step1_log, aside>>

(* ------------------- merge_audio_with_video (Audio Replacer) ----------- *)

Min(a, b) == IF a < b THEN a ELSE b

\* mutant: the elif forgets the 0.1 s allowance
ReconcileNoTolerance(video, audio) ==
    IF audio > video THEN "truncate"
    ELSE IF audio < video THEN "pad"
    ELSE "asis"

\* mutant: the if grants the 0.1 s allowance to a longer audio too
ReconcileSymmetric(video, audio) ==
    IF audio > video + PadToleranceMs THEN "truncate"
    ELSE IF audio < video - PadToleranceMs THEN "pad"
    ELSE "asis"

\* step 2 of the replacer: which of the three branches the if / elif / else takes
Reconcile(video, audio) ==
    IF audio > video THEN "truncate"
    ELSE IF audio < video - PadToleranceMs THEN "pad"
    ELSE "asis"

\* duration of the audio file handed to the mux: "-t video_duration" cuts,
\* "apad=pad_dur=video-audio" with "-t video_duration" pads, else audio_path itself
ProcessedDuration(video, audio) ==
    LET branch == Reconcile(video, audio)
    IN  IF branch = "truncate" THEN Min(audio, video)
        ELSE IF branch = "pad" THEN Min(audio + (video - audio), video)
        ELSE audio

\* (video streams, audio streams) a probe may count in an output file
StreamLayouts == {<<1, 1>>, <<1, 0>>, <<2, 1>>}

\* the stream-count test of the post-check
StreamsOk(nv, na) == ~(nv # 1 \/ na # 1)

MergeRun(ret, video, audio, branch, processed, check, nv, na) ==
    [ret |-> ret, video |-> video, audio |-> audio, branch |-> branch,
     processed |-> processed, stream_check |-> check, nv |-> nv, na |-> na]

\* how "self.get_video_duration(output_path)" in the last log line ends the call:
\* a value, CalledProcessError (caught by the outer except) or ValueError (not caught)
LastProbe == {"True", "False", "raised"}

\* how the call ends when the stream probe of the post-check raised: the
\* inner "except Exception" logs a warning and the method goes on
AfterFailedStreamProbe == LastProbe

\* every way one call can run, by the outcome of each tool it starts
MergeRuns(video_exists, audio_exists, video, audio) ==
    IF ~video_exists \/ ~audio_exists
    THEN {MergeRun("False", -1, -1, "none", -1, "not_reached", -1, -1)}
    ELSE
    LET branch    == Reconcile(video, audio)
        processed == ProcessedDuration(video, audio)
    IN  \* a duration probe exits non-zero, or prints no number
        {MergeRun(r, -1, -1, "none", -1, "not_reached", -1, -1) :
            r \in {"False", "raised"}}
        \cup \* the strip command fails
        {MergeRun("False", video, audio, "none", -1, "not_reached", -1, -1)}
        \cup \* the cut or pad command fails
        {MergeRun("False", video, audio, b, -1, "not_reached", -1, -1) :
            b \in {branch} \ {"asis"}}
        \cup \* the mux fails, or its output is missing or under 1 KiB
        {MergeRun("False", video, audio, branch, processed, "not_reached", -1, -1)}
        \cup \* the stream probe fails
        {MergeRun(r, video, audio, branch, processed, "probe_failed", -1, -1) :
            r \in AfterFailedStreamProbe}
        \cup \* the stream probe counts the streams
        UNION {IF StreamsOk(c[1], c[2])
               THEN {MergeRun(r, video, audio, branch, processed, "counted", c[1], c[2]) :
                        r \in LastProbe}
               ELSE {MergeRun("False", video, audio, branch, processed, "counted",
                              c[1], c[2])} :
               c \in StreamLayouts}

(* ----------------------- step 3: replace the audio --------------------- *)

Max(a, b) == IF a > b THEN a ELSE b

\* what "-ss start -t (end - start)" cuts out of the source video: the part of
\* the span that lies inside the video
ExtractedDuration(start, end) ==
    Max(0, Min(end, video_duration) - Min(start, video_duration))

\* duration of the clip step 2 passed on: a step-1 clip lasts as long as what
\* was cut out; a retimed clip (setpts = 1 / speed_factor * PTS) that long
\* divided by the factor, which is the synthesized duration when the whole
\* span was cut out
ClipDuration(seg) ==
    LET u   == seg.audio_file
        got == ExtractedDuration(u.start, u.end)
    IN  IF seg.path.role = "step2_speech_speed"
        THEN (got * u.new_duration) \div (u.end - u.start)
        ELSE got

\* os.getpid(): one value for the whole run
Pid == 1

\* the files one call of merge_audio_with_video for the clip of span
\* start..end has written, by how far the call came: the stripped video,
\* the cut or padded audio, the output given as output_path
MergeWrites(run, output_path, start, end) ==
    (IF run.branch # "none"
        THEN {Artifact(Path("pure_video", Pid), "stripped", start, end)} ELSE {})
    \cup
    (IF run.branch \in {"truncate", "pad"} /\ run.processed # -1
        THEN {Artifact(Path("processed_audio", Pid), "reconciled", start, end)}
        ELSE {})
    \cup
    (IF run.stream_check # "not_reached"
        THEN {Artifact(output_path, "re-audioed", start, end)} ELSE {})

\* mutant: a failed replacement is skipped, as a failed extraction is
OnMergeFailureSkip == "skip"

\* what step 3 does when merge_audio_with_video has returned False
OnMergeFailure == "return_false"

\* one iteration of "for i, segment in enumerate(speed_adjusted_segments)"
Step3Segment ==
    /\ pc = "step3"
    /\ LET seg == speed_adjusted_segments[i]
       IN  \/ /\ seg.type # "speech"
              /\ final_segments' = Append(final_segments, seg.path)
              /\ NextIndex(speed_adjusted_segments, "normalize")
              /\ merge_returned' = NoMerge
              /\ UNCHANGED <<result, merge_failed_at, artifacts>>
           \/ /\ seg.type = "speech"
              /\ \E run \in MergeRuns(TRUE, TRUE, ClipDuration(seg),
                                       seg.audio_file.new_duration) :
                    /\ merge_returned' = run
                    /\ artifacts' =
                           artifacts
                           \cup MergeWrites(run, Path("step3_speech_with_tts", i - 1),
                                            seg.audio_file.start, seg.audio_file.end)
                    /\ \/ /\ run.ret = "True"
                          /\ final_segments' =
                                 Append(final_segments,
                                        Path("step3_speech_with_tts", i - 1))
                          /\ NextIndex(speed_adjusted_segments, "normalize")
                          /\ UNCHANGED <<result, merge_failed_at>>
                       \/ /\ run.ret = "False"
                          /\ merge_failed_at' = i
                          /\ IF OnMergeFailure = "return_false"
                                THEN /\ Return("False")
                                     /\ UNCHANGED i
                                ELSE /\ NextIndex(speed_adjusted_segments, "normalize")
                                     /\ UNCHANGED result
                          /\ UNCHANGED final_segments
                       \/ /\ run.ret = "raised"
                          /\ Return("raised")
                          /\ UNCHANGED <<i, final_segments, merge_failed_at>>
    /\ UNCHANGED <<video_duration, audio_files, current_time, original_segments,
                   speed_adjusted_segments, normalized_segments, output, planned,
                   extract_failed, step2_log, commands>>
    /\ UNCHANGED <<step1_log, aside>>

(* -------------------- step 4: normalize and concatenate ---------------- *)

\* mutant: the segment is listed as it is, without being re-encoded
NormalizedInPlace(path) == path

\* normalized_dir / "{segment_name}_normalized.mp4"
Normalized(path) == [dir |-> "tmp/normalized", role |-> path.role, idx |-> path.idx]

\* an ffmpeg command of step 4, the files it reads and whether it exited with 0
Command(name, arg, ok) == [cmd |-> name, arg |-> arg, ok |-> ok]

\* one iteration of "for i, segment_path in enumerate(final_segments)"
Step4Normalize ==
    /\ pc = "normalize"
    /\ merge_returned' = NoMerge
    /\ \E ok \in BOOLEAN :
          /\ commands' = Append(commands, Command("normalize", <<final_segments[i]>>, ok))
          /\ artifacts' =
                 artifacts
                 \cup (IF ok
                         THEN {Artifact(Normalized(final_segments[i]), "normalized",
                                        original_segments[i].start,
                                        original_segments[i].end)}
                         ELSE {})
          /\ IF ok
                THEN /\ normalized_segments' =
                            Append(normalized_segments, Normalized(final_segments[i]))
                     /\ NextIndex(final_segments, "concat")
                     /\ UNCHANGED result
                ELSE /\ Return("False")
                     /\ UNCHANGED <<i, normalized_segments>>
    /\ UNCHANGED <<video_duration, audio_files, current_time, original_segments,
                   speed_adjusted_segments, final_segments, output, planned,
                   extract_failed, step2_log, merge_failed_at>>
    /\ UNCHANGED <<step1_log, aside>>

\* mutant: every piece taken to last as long as step 2 recorded
PieceDurationAsRecorded(k) == speed_adjusted_segments[k].duration

\* duration of the k-th file step 3 passes on: the mux copies the clip's video
\* stream under "-t video_duration", so a speech piece lasts as long as the
\* clip that went in; a gap or tail is the cut-out clip, with or without its
\* audio replaced by silence ("-t duration -shortest")
PieceDuration(k) ==
    IF speed_adjusted_segments[k].type = "speech"
    THEN ClipDuration(speed_adjusted_segments[k])
    ELSE ExtractedDuration(original_segments[k].start, original_segments[k].end)

RECURSIVE JoinedDuration(_)
\* the concat demuxer plays the first n listed files one after the other
JoinedDuration(n) ==
    IF n = 0 THEN 0 ELSE JoinedDuration(n - 1) + PieceDuration(n)

\* the file a successful join writes
Joined(c) ==
    [nv |-> c[1], na |-> c[2],
     duration |-> JoinedDuration(Len(normalized_segments))]

\* mutant: the re-encode join is run whatever the stream-copy join returned
ReencodeAlways(copy_ok) == TRUE

\* "if result.returncode != 0" after the stream-copy join
ReencodeAfter(copy_ok) == ~copy_ok

\* the join commands one pass through the concat block runs
JoinAttempts(list, copy_ok, reencode_ok) ==
    <<Command("concat_copy", list, copy_ok)>>
    \o (IF ReencodeAfter(copy_ok)
           THEN <<Command("concat_reencode", list, reencode_ok)>>
           ELSE <<>>)

\* the file list, written from normalized_segments; the stream-copy join and
\* its re-encode fallback; "return False" when the last command run failed
Step4Concat ==
    /\ pc = "concat"
    /\ \E copy_ok, reencode_ok \in BOOLEAN :
          LET attempts == JoinAttempts(normalized_segments, copy_ok, reencode_ok)
          IN  /\ commands' = commands \o attempts
              /\ IF attempts[Len(attempts)].ok
                    THEN /\ \E c \in StreamLayouts : output' = Joined(c)
                         /\ pc' = "final"
                         /\ UNCHANGED result
                    ELSE /\ Return("False")
                         /\ UNCHANGED output
    /\ UNCHANGED <<video_duration, audio_files, current_time, i, original_segments,
                   speed_adjusted_segments, final_segments, normalized_segments,
                   planned, extract_failed, step2_log, merge_returned, merge_failed_at>>
    /\ UNCHANGED <<step1_log, artifacts, aside>>

\* the closing report: getsize, get_video_info and validate_audio_quality only
\* log, inside try / except Exception; then "return True"
FinalReport ==
    /\ pc = "final"
    /\ Return("True")
    /\ UNCHANGED <<video_duration, audio_files, current_time, i, original_segments,
                   speed_adjusted_segments, final_segments, normalized_segments,
                   output, planned, extract_failed, step2_log, merge_returned,
                   merge_failed_at, commands>>
    /\ UNCHANGED <<step1_log, artifacts, aside>>

Next ==
    \/ ProbeVideo
    \/ ScanAudio
    \/ Step1Unit
    \/ Step1Tail
    \/ NoSegments
    \/ Step2Segment
    \/ Step3Segment
    \/ Step4Normalize
    \/ Step4Concat
    \/ FinalReport

Spec == Init /\ [][Next]_vars

(* -------------- merge_audio_with_video called on its own --------------- *)

\* audio durations around a video duration: far off, at and next to the
\* 0.1 s allowance, and next to equality
MergeOffsets ==
    {-Tick, -(PadToleranceMs + 1), -PadToleranceMs, -(PadToleranceMs - 1), -Jitter,
     0, Jitter, PadToleranceMs - 1, PadToleranceMs, PadToleranceMs + 1, Tick}

MergeArgs ==
    {[video_exists |-> ve, audio_exists |-> ae, video |-> v, audio |-> v + o] :
        ve \in BOOLEAN, ae \in BOOLEAN, v \in GridTimes \ {0}, o \in MergeOffsets}

InitMerge ==
    /\ pc = "merge_call"
    /\ merge_args \in MergeArgs
    /\ result = "none"
    /\ video_duration = 0
    /\ audio_files = <<>>
    /\ current_time = 0
    /\ i = 1
    /\ original_segments = <<>>
    /\ speed_adjusted_segments = <<>>
    /\ final_segments = <<>>
    /\ normalized_segments = <<>>
    /\ output = NoOutput
    /\ planned = <<>>
    /\ step1_log = <<>>
    /\ artifacts = {}
    /\ extract_failed = FALSE
    /\ step2_log = <<>>
    /\ merge_returned = NoMerge
    /\ merge_failed_at = 0
    /\ commands = <<>>
    /\ scratch = FreshDir
    /\ written = {}
    /\ AdjustIdle
    /\ ElsewhereIdle

\* one call of merge_audio_with_video(video_path, audio_path, output_path)
MergeCall ==
    /\ pc = "merge_call"
    /\ \E run \in MergeRuns(merge_args.video_exists, merge_args.audio_exists,
                             merge_args.video, merge_args.audio) :
          /\ merge_returned' = run
          /\ result' = run.ret
    /\ pc' = "merge_done"
    /\ UNCHANGED <<video_duration, audio_files, current_time, i, original_segments,
                   speed_adjusted_segments, final_segments, normalized_segments,
                   output, planned, extract_failed, step2_log, merge_failed_at,
                   commands, merge_args, scratch, written, gpu, adjust_args,
                   step1_log, artifacts, elsewhere>>

SpecMerge == InitMerge /\ [][MergeCall]_vars

(* ------------------- claims on merge_audio_with_video ------------------ *)

(* C3: whenever merge_audio_with_video returns True, its post-check has    *)
(* counted exactly one video and one audio stream in the output; a run in  *)
(* which the stream probe failed, or counted anything else, does not       *)
(* return True.                                                            *)
C3_TrueOnlyAfterStreamCount ==
    /\ merge_returned.ret = "True" =>
          /\ merge_returned.stream_check = "counted"
          /\ merge_returned.nv = 1
          /\ merge_returned.na = 1
    /\ merge_returned.stream_check = "probe_failed" => merge_returned.ret # "True"

(* C4: the reconciliation is a three-way choice on the probed durations:   *)
(* audio > video truncates to the video duration, audio < video - 0.1 s    *)
(* pads to exactly the video duration, every other pair muxes the supplied *)
(* audio unchanged; a call that gets past the step has taken exactly one   *)
(* of the three.                                                           *)
C4_ThreeWayReconcile ==
    LET r == merge_returned
    IN  /\ r.ret = "True" => r.branch \in {"truncate", "pad", "asis"}
        /\ r.branch # "none" =>
              /\ r.audio > r.video => r.branch = "truncate"
              /\ r.audio < r.video - PadToleranceMs => r.branch = "pad"
              /\ (r.audio <= r.video /\ r.audio >= r.video - PadToleranceMs)
                    => r.branch = "asis"
        /\ r.processed # -1 =>
              /\ r.branch \in {"truncate", "pad"} => r.processed = r.video
              /\ r.branch = "asis" => r.processed = r.audio

\* a call that padded a short audio to the video duration and returned True
C4_Witness ==
    /\ merge_returned.ret = "True"
    /\ merge_returned.branch = "pad"
    /\ merge_returned.audio < merge_returned.video - PadToleranceMs
    /\ merge_returned.processed = merge_returned.video

(* C5 as claimed: an audio within 0.1 s of the video duration, longer or   *)
(* shorter, is used as-is.                                                 *)
C5_AsIsWithinTolerance ==
    LET r == merge_returned
    IN  (r.branch # "none" /\ Abs(r.audio - r.video) <= PadToleranceMs)
            => r.branch = "asis"

(* C5 as amended: an audio no longer than the video and at most 0.1 s      *)
(* shorter is used as-is; an audio longer than the video, by however       *)
(* little (video 10.0 s, audio 10.05 s), is truncated to the video         *)
(* duration.                                                               *)
C5_AsIsOnlyWhenNotLonger ==
    LET r == merge_returned
    IN  r.branch # "none" =>
          /\ (r.audio <= r.video /\ r.audio >= r.video - PadToleranceMs) =>
                /\ r.branch = "asis"
                /\ r.processed # -1 => r.processed = r.audio
          /\ (r.audio > r.video /\ r.audio <= r.video + PadToleranceMs) =>
                /\ r.branch = "truncate"
                /\ r.processed # -1 => r.processed = r.video

\* a call with an audio up to 0.1 s longer than the video that returned True
C5_Witness ==
    /\ merge_returned.ret = "True"
    /\ merge_returned.audio > merge_returned.video
    /\ merge_returned.audio <= merge_returned.video + PadToleranceMs
    /\ merge_returned.branch = "truncate"

(* ------------------------- the planner's walk -------------------------- *)

StepOneDone ==
    /\ pc \in {"step2", "step3", "normalize", "concat", "final", "done"}
    /\ planned # <<>>

\* where the cursor stands when unit j is reached
CursorAt(j) == IF j = 1 THEN 0 ELSE audio_files[j - 1].end

\* the spans of the original time line that no unit covers: the gap in front
\* of each unit, and the tail behind the last one
GapSpans ==
    {[start |-> CursorAt(j), end |-> audio_files[j].start] :
        j \in {j \in DOMAIN audio_files : audio_files[j].start > CursorAt(j)}}
    \cup
    {[start |-> audio_files[j].end, end |-> video_duration] :
        j \in {j \in DOMAIN audio_files :
                  j = Len(audio_files) /\ audio_files[j].end < video_duration}}

ShortGapSpans == {g \in GapSpans : g.end - g.start < MinGapMs}

\* the time line [0, video_duration] in cells of one grid step
Cells == {k \in 0..(MaxT + 1) : (k + 1) * Tick <= video_duration}

Within(k, span) == span.start <= k * Tick /\ (k + 1) * Tick <= span.end

(* C1: once step 1 is done, original_segments is in chronological order    *)
(* and every instant of [0, video_duration] lies in exactly one of its     *)
(* segments, unless it lies in a gap or tail shorter than 1.0 s; whatever  *)
(* the extraction calls returned.                                          *)
C1_SegmentsCoverTimeline ==
    StepOneDone =>
        /\ \A k \in 1..(Len(original_segments) - 1) :
              original_segments[k].end <= original_segments[k + 1].start
        /\ \A k \in Cells :
              \/ \E g \in ShortGapSpans : Within(k, g)
              \/ Cardinality({j \in DOMAIN original_segments :
                                 Within(k, original_segments[j])}) = 1

(* C2: once step 1 is done, no gap or tail segment of the list is shorter  *)
(* than 1.0 s, and every gap or tail of 1.0 s or more is in the list, also *)
(* when its extraction or its silence-normalization failed.                *)
C2_DroppingRule ==
    StepOneDone =>
        /\ \A seg \in Range(original_segments) :
              seg.type \in {"gap", "tail"} => seg.duration >= MinGapMs
        /\ \A g \in GapSpans \ ShortGapSpans :
              \E seg \in Range(original_segments) :
                 /\ seg.type \in {"gap", "tail"}
                 /\ seg.start = g.start
                 /\ seg.end = g.end

(* C9: a run in which an extraction returned False never returns True.    *)
C9_ExtractionFailureAborts ==
    extract_failed => result # "True"

(* C10: a run returns True only if its final file holds exactly one video  *)
(* stream and one audio stream.                                            *)
C10_TrueOnlyWithOneVideoOneAudio ==
    (pc = "done" /\ result = "True") => (output.nv = 1 /\ output.na = 1)

(* -------------------------------- step 2 ------------------------------- *)

SpeechEntries2 ==
    {k \in DOMAIN step2_log : original_segments[k].type = "speech"}

(* C6 as claimed: a speech segment whose duration differs from the         *)
(* synthesized duration by less than 0.01 s is never handed to the Speed   *)
(* Adjuster, however short it is.                                          *)
C6_NoRetimeWithinTenMs ==
    \A k \in SpeechEntries2 :
        LET seg == original_segments[k]
        IN  Abs(seg.duration - seg.audio_file.new_duration) < DurationTolMs =>
              /\ step2_log[k].adjust = "skipped"
              /\ speed_adjusted_segments[k].path = seg.path

(* C6 as amended: a speech segment whose speed factor duration /           *)
(* synthesized duration differs from 1 by less than 0.01, that is whose    *)
(* durations differ by less than 1 % of the synthesized duration, is never *)
(* handed to the Speed Adjuster and its step-1 clip is passed on.          *)
C6_NoRetimeWithinOnePercent ==
    \A k \in SpeechEntries2 :
        LET seg == original_segments[k]
            n   == seg.audio_file.new_duration
        IN  (n > 0 /\ SpeedTolInv * Abs(seg.duration - n) < n) =>
              /\ step2_log[k].adjust = "skipped"
              /\ step2_log[k].speed_factor = FactorOne
              /\ speed_adjusted_segments[k].path = seg.path

\* step 2 has passed on, unretimed, a clip whose audio is longer than its span
C6_Witness ==
    \E k \in SpeechEntries2 :
        LET seg == original_segments[k]
            n   == seg.audio_file.new_duration
        IN  /\ n > seg.duration
            /\ SpeedTolInv * Abs(seg.duration - n) < n
            /\ step2_log[k].adjust = "skipped"
            /\ speed_adjusted_segments[k].path = seg.path

(* C8: a failed Speed Adjuster call does not end the run: the entry of     *)
(* that segment carries the step-1 clip and factor 1.0, step 2 goes on to  *)
(* the end of the list, and every entry is what its own segment and its    *)
(* own adjuster call make it.                                              *)
C8_AdjustFailureFallsBack ==
    /\ Len(step2_log) = Len(speed_adjusted_segments)
    /\ \A k \in DOMAIN step2_log :
          LET seg == original_segments[k]
              e   == speed_adjusted_segments[k]
              lg  == step2_log[k]
          IN  /\ e.type = seg.type
              /\ lg.adjust = "failed" =>
                    /\ e.path = seg.path
                    /\ lg.speed_factor = FactorOne
                    /\ e.duration = seg.audio_file.new_duration
                    /\ e.audio_file = seg.audio_file
              /\ lg.adjust = "ok" =>
                    /\ e.path = Path("step2_speech_speed", k - 1)
                    /\ lg.speed_factor = Factor(seg.duration, seg.audio_file.new_duration)
              /\ lg.adjust \in {"none", "skipped"} => e.path = seg.path
    /\ (\E k \in DOMAIN step2_log : step2_log[k].adjust = "failed") =>
          /\ pc = "step2" => result = "none"
          /\ (pc = "done" /\ result = "False") =>
                Len(speed_adjusted_segments) = Len(original_segments)
          /\ pc \in {"step3", "normalize", "concat", "final"} =>
                Len(speed_adjusted_segments) = Len(original_segments)

\* a run that returned True although the adjuster failed on its first segment
\* and succeeded on a later one
C8_Witness ==
    /\ pc = "done"
    /\ result = "True"
    /\ \E k, m \in DOMAIN step2_log :
          /\ k < m
          /\ step2_log[k].adjust = "failed"
          /\ step2_log[m].adjust = "ok"
          /\ final_segments[k] = Path("step3_speech_with_tts", k - 1)

(* -------------------------------- step 3 ------------------------------- *)

(* C7: once the Audio Replacer has returned False for a speech segment,    *)
(* the run has returned False: no later segment has been processed, no     *)
(* normalize or concat command has been issued and no output written; and  *)
(* a run whose last replacer call did not return True is over and has not  *)
(* returned True.                                                          *)
C7_MergeFailureIsFatal ==
    /\ merge_failed_at # 0 =>
          /\ pc = "done"
          /\ result = "False"
          /\ Len(final_segments) < merge_failed_at
          /\ normalized_segments = <<>>
          /\ commands = <<>>
          /\ output = NoOutput
    /\ merge_returned.ret \in {"False", "raised"} =>
          /\ pc = "done"
          /\ result = merge_returned.ret
          /\ commands = <<>>

\* the Audio Replacer failed on a segment that was not the last one
C7_Witness ==
    /\ merge_failed_at # 0
    /\ merge_failed_at < Len(speed_adjusted_segments)
    /\ merge_returned.ret = "False"

(* ------------------------- the joined output -------------------------- *)

\* per-segment rounding allowance of the output duration, ms
SegmentTolMs == 50

RECURSIVE SumOver(_, _)
SumOver(D(_), n) == IF n = 0 THEN 0 ELSE SumOver(D, n - 1) + D(n)

\* the duration step 2 records for entry k: the synthesized duration for a
\* speech segment, the span of a gap or tail
RecordedDuration(k) == speed_adjusted_segments[k].duration

\* the part of segment k's span that lies inside the video: all of it, unless
\* the unit ends after the end of the video
InsideVideo(k) ==
    LET seg == original_segments[k]
    IN  IF seg.end <= video_duration THEN seg.duration
        ELSE IF seg.start >= video_duration THEN 0
        ELSE video_duration - seg.start

\* that part for a gap, a tail and a speech segment that was not retimed; that
\* part divided by the speed factor for a retimed speech segment, which is the
\* synthesized duration when the unit ends within the video
ActualDuration(k) ==
    LET seg == original_segments[k]
    IN  IF seg.type = "speech" /\ step2_log[k].adjust = "ok"
        THEN IF seg.end <= video_duration
             THEN seg.audio_file.new_duration
             ELSE (InsideVideo(k) * seg.audio_file.new_duration) \div seg.duration
        ELSE InsideVideo(k)

SuccessfulRun == pc = "done" /\ result = "True"

ConcatCommands ==
    {c \in Range(commands) : c.cmd \in {"concat_copy", "concat_reencode"}}

(* C12: the lists handed on towards concatenation are in original          *)
(* chronological order: step 1's list is strictly ordered by start time,   *)
(* entry k of every later list (step 2, step 3, normalized, concat file    *)
(* list) is made from entry k of the list before it, whatever the listing  *)
(* order of the TTS files and whichever fallback was taken.                *)
C12_ChronologicalOrder ==
    /\ \A k, m \in DOMAIN original_segments :
          k < m => /\ original_segments[k].start < original_segments[m].start
                   /\ original_segments[k].end <= original_segments[m].start
    /\ \A k \in DOMAIN speed_adjusted_segments :
          LET seg == original_segments[k]
              e   == speed_adjusted_segments[k]
          IN  /\ e.type = seg.type
              /\ e.path \in {seg.path, Path("step2_speech_speed", k - 1)}
              /\ seg.type = "speech" => e.audio_file = seg.audio_file
    /\ \A k \in DOMAIN final_segments :
          LET e == speed_adjusted_segments[k]
          IN  final_segments[k] =
                 IF e.type = "speech" THEN Path("step3_speech_with_tts", k - 1)
                 ELSE e.path
    /\ \A k \in DOMAIN normalized_segments :
          normalized_segments[k] = Normalized(final_segments[k])
    /\ \A c \in ConcatCommands :
          /\ c.arg = normalized_segments
          /\ Len(c.arg) = Len(original_segments)

\* a joined output of a gap, two speech segments and a tail, one of them on
\* the retime-failure fallback and one with a failed silence normalization
C12_Witness ==
    /\ SuccessfulRun
    /\ ConcatCommands # {}
    /\ Len(normalized_segments) >= 3
    /\ \E k, m \in DOMAIN original_segments :
          /\ k < m
          /\ original_segments[k].type = "speech"
          /\ original_segments[m].type = "speech"
    /\ \E k \in DOMAIN step2_log : step2_log[k].adjust = "failed"
    /\ \E k \in DOMAIN original_segments :
          original_segments[k].path.role \in {"step1_gap", "step1_tail"}

(* ----------------------- a unit over the whole video ------------------ *)

\* the only unit has start_ms = 0 and end_ms = the video duration
WholeVideoUnit ==
    /\ Len(audio_files) = 1
    /\ audio_files[1].start = 0
    /\ audio_files[1].end = video_duration

(* C13: when the only unit spans the whole video, step 1 asks for exactly  *)
(* one span, the speech span [0, video_duration], and for no gap and no    *)
(* tail; its list holds no gap and no tail segment and, the extraction     *)
(* having returned True, exactly the one speech segment.                   *)
C13_WholeVideoIsOneSpeech ==
    (WholeVideoUnit /\ StepOneDone) =>
        /\ planned = <<Span("speech", 0, video_duration)>>
        /\ \A seg \in Range(original_segments) : seg.type = "speech"
        /\ Len(original_segments) <= 1
        /\ ~extract_failed =>
              original_segments =
                 <<Segment(Path("step1_speech", 0), "speech", 0, video_duration,
                           audio_files[1])>>

\* a successful run over a single unit that spans the whole video
C13_Witness ==
    /\ WholeVideoUnit
    /\ SuccessfulRun
    /\ Len(original_segments) = 1
    /\ original_segments[1].type = "speech"
    /\ original_segments[1].end = video_duration

(* ------------------------ normalize, then join ------------------------ *)

\* positions of the normalize commands among the commands issued so far
NormalizeCommands == {k \in DOMAIN commands : commands[k].cmd = "normalize"}

(* C14: a concat command is issued only after every collected segment has  *)
(* been normalized successfully: before it come exactly one normalize      *)
(* command per entry of final_segments, in order; the concat list holds    *)
(* one file of the normalized directory per collected segment and nothing  *)
(* else; and once a normalize command has failed the run has returned      *)
(* False and no concat command has been issued.                            *)
C14_ConcatOnlyNormalized ==
    /\ \A k \in NormalizeCommands :
          /\ k <= Len(final_segments)
          /\ commands[k].arg = <<final_segments[k]>>
          /\ \A m \in 1..(k - 1) : m \in NormalizeCommands
    /\ Cardinality(NormalizeCommands) - Len(normalized_segments) \in {0, 1}
    /\ \A c \in ConcatCommands :
          /\ Cardinality(NormalizeCommands) = Len(final_segments)
          /\ Len(c.arg) = Len(final_segments)
          /\ final_segments # <<>>
          /\ \A k \in DOMAIN c.arg :
                /\ c.arg[k].dir = "tmp/normalized"
                /\ c.arg[k].role = final_segments[k].role
                /\ c.arg[k].idx = final_segments[k].idx
                /\ \A m \in DOMAIN c.arg : m # k => c.arg[m] # c.arg[k]
    /\ Len(normalized_segments)
          = Cardinality({k \in NormalizeCommands : commands[k].ok})
    /\ (\E k \in NormalizeCommands : ~commands[k].ok) =>
          /\ pc = "done"
          /\ result = "False"
          /\ ConcatCommands = {}
          /\ output = NoOutput

\* a join of a gap, a speech segment and a tail, all three normalized
C14_Witness ==
    /\ ConcatCommands # {}
    /\ Len(normalized_segments) = 3
    /\ {original_segments[k].type : k \in DOMAIN original_segments}
          = {"gap", "speech", "tail"}

(* ----------------------- the join and its fallback -------------------- *)

\* the join commands issued so far, in order
Joins == SelectSeq(commands, LAMBDA c : c.cmd \in {"concat_copy", "concat_reencode"})

(* C15: the join is attempted first as a stream copy; the re-encode join   *)
(* is run if and only if the stream-copy join failed, at most once and     *)
(* over the same file list; the run returns False at this step if and only *)
(* if both failed, and goes on to its output once either has succeeded.    *)
C15_CopyThenReencode ==
    Joins # <<>> =>
        /\ Len(Joins) <= 2
        /\ Joins[1].cmd = "concat_copy"
        /\ Joins[1].arg = normalized_segments
        /\ Len(Joins) = 2 <=> ~Joins[1].ok
        /\ Len(Joins) = 2 =>
              /\ Joins[2].cmd = "concat_reencode"
              /\ Joins[2].arg = Joins[1].arg
        /\ (\A k \in DOMAIN Joins : ~Joins[k].ok) <=>
              (pc = "done" /\ result = "False")
        /\ (\E k \in DOMAIN Joins : Joins[k].ok) <=>
              (output # NoOutput /\ (pc = "final" \/ SuccessfulRun))

\* a successful run whose stream-copy join failed and whose re-encode join
\* succeeded
C15_Witness ==
    /\ SuccessfulRun
    /\ Len(Joins) = 2
    /\ ~Joins[1].ok
    /\ Joins[2].ok
    /\ Len(Joins[2].arg) >= 2

(* ------------------ the scratch directory of one run ------------------ *)
(* with VideoProcessor(...) as processor:                                  *)
(*     success = processor.process_video_translation(...)                  *)

\* files a former run may have left in "tmp"
StaleFiles == {"step1_speech_0.mp4", "step1_tail.mp4", "notes.txt"}

\* files the run writes into "tmp"
ArtifactFiles ==
    {"step1_speech_0.mp4", "step2_speech_speed_0.mp4",
     "step3_speech_with_tts_0.mp4",
     "normalized/step3_speech_with_tts_0_normalized.mp4",
     "step4_final_file_list.txt"}

\* "tmp" before the run: missing, or a directory with any files in it
DirsBefore ==
    {[exists |-> FALSE, files |-> {}]}
    \cup {[exists |-> TRUE, files |-> fs] : fs \in SUBSET StaleFiles}

\* mutant: the directory is created if missing and otherwise left as found
AfterEnterKeeping(dir) == [exists |-> TRUE, files |-> dir.files]

\* __enter__: shutil.rmtree("tmp") if it exists, then os.makedirs("tmp")
AfterEnter(dir) == [exists |-> TRUE, files |-> {}]

\* __exit__ only logs: the rmtree of the directory is commented out
AfterExit(dir) == dir

InitScratch ==
    /\ pc = "enter"
    /\ scratch \in DirsBefore
    /\ written = {}
    /\ AdjustIdle
    /\ ElsewhereIdle
    /\ result = "none"
    /\ video_duration = 0
    /\ audio_files = <<>>
    /\ current_time = 0
    /\ i = 1
    /\ original_segments = <<>>
    /\ speed_adjusted_segments = <<>>
    /\ final_segments = <<>>
    /\ normalized_segments = <<>>
    /\ output = NoOutput
    /\ planned = <<>>
    /\ step1_log = <<>>
    /\ artifacts = {}
    /\ extract_failed = FALSE
    /\ step2_log = <<>>
    /\ merge_returned = NoMerge
    /\ merge_failed_at = 0
    /\ commands = <<>>
    /\ merge_args = NoCall

RunVars ==
    <<video_duration, audio_files, current_time, i, original_segments,
      speed_adjusted_segments, final_segments, normalized_segments, output,
      planned, extract_failed, step2_log, merge_returned, merge_failed_at,
      commands, merge_args, gpu, adjust_args, step1_log, artifacts, elsewhere>>

Enter ==
    /\ pc = "enter"
    /\ scratch' = AfterEnter(scratch)
    /\ pc' = "run"
    /\ UNCHANGED <<result, written>>
    /\ UNCHANGED RunVars

\* a command of the run writes a file into "tmp" ("ffmpeg -y" overwrites)
RunWrites ==
    /\ pc = "run"
    /\ \E f \in ArtifactFiles :
          /\ scratch' = [scratch EXCEPT !.files = @ \cup {f}]
          /\ written' = written \cup {f}
    /\ UNCHANGED <<pc, result>>
    /\ UNCHANGED RunVars

\* process_video_translation returns True or False, or raises
RunEnds ==
    /\ pc = "run"
    /\ \E r \in {"True", "False", "raised"} : result' = r
    /\ pc' = "exit"
    /\ UNCHANGED <<scratch, written>>
    /\ UNCHANGED RunVars

Exit ==
    /\ pc = "exit"
    /\ scratch' = AfterExit(scratch)
    /\ pc' = "left"
    /\ UNCHANGED <<result, written>>
    /\ UNCHANGED RunVars

NextScratch == Enter \/ RunWrites \/ RunEnds \/ Exit

SpecScratch == InitScratch /\ [][NextScratch]_vars

(* C16: from __enter__ on the scratch directory exists and holds exactly   *)
(* the files written since, nothing of what it held before; right after    *)
(* __enter__ it is empty, and after __exit__, whether the run returned     *)
(* True or False or raised, every file written during the run is there.    *)
C16_ScratchLifecycle ==
    pc \in {"run", "exit", "left"} =>
        /\ scratch.exists
        /\ scratch.files = written

\* the run has been left after a failure with the files it wrote still in
\* place, and without a file it did not write
C16_Witness ==
    /\ pc = "left"
    /\ result = "False"
    /\ written # {}
    /\ scratch.files = written
    /\ "step1_speech_0.mp4" \notin written

(* ---------------------------- failed probes --------------------------- *)

\* the call of merge_audio_with_video that has returned ran a probe that failed:
\* the stream probe of the post-check, or the closing duration probe
MergeProbeFailed ==
    \/ merge_returned.stream_check = "probe_failed"
    \/ /\ merge_returned.stream_check = "counted"
       /\ StreamsOk(merge_returned.nv, merge_returned.na)
       /\ merge_returned.ret # "True"

(* C17: a failed probe is fatal to the operation that issued it: a call of *)
(* merge_audio_with_video in which a probe has failed does not return      *)
(* True.                                                                   *)
C17_ProbeFailureIsFatal ==
    (merge_returned.ret # "none" /\ MergeProbeFailed) => merge_returned.ret # "True"

(* ------------------- the spans asked of the extractor ----------------- *)

(* C18: every span step 1 hands to create_video_segment_with_audio has     *)
(* 0 <= start < end <= video_duration.                                     *)
C18_ExtractionWithinVideo ==
    \A k \in DOMAIN planned :
        /\ 0 <= planned[k].start
        /\ planned[k].start < planned[k].end
        /\ planned[k].end <= video_duration

(* --------------------------- the speed factor ------------------------- *)

(* C19: for every speech segment the speed factor is its duration divided  *)
(* by the synthesized duration of its unit; the Speed Adjuster is invoked  *)
(* if and only if that factor differs from 1 by at least 0.01; when it is  *)
(* not invoked, the factor is recorded as 1.0 and the step-1 clip is       *)
(* passed on, and when it succeeds the factor recorded is that ratio.      *)
C19_RetimeIffFactorOff ==
    \A k \in SpeechEntries2 :
        LET seg == original_segments[k]
            n   == seg.audio_file.new_duration
            lg  == step2_log[k]
        IN  /\ n > 0
            /\ lg.adjust \in {"ok", "failed", "skipped"}
            /\ lg.adjust \in {"ok", "failed"}
                  <=> SpeedTolInv * Abs(seg.duration - n) >= n
            /\ lg.adjust = "skipped" =>
                  /\ lg.speed_factor = FactorOne
                  /\ speed_adjusted_segments[k].path = seg.path
            /\ lg.adjust = "ok" =>
                  /\ lg.speed_factor = Factor(seg.duration, n)
                  /\ speed_adjusted_segments[k].path = Path("step2_speech_speed", k - 1)

\* step 2 has retimed one speech segment and passed another on as it was
C19_Witness ==
    \E k, m \in SpeechEntries2 :
        /\ step2_log[k].adjust = "ok"
        /\ step2_log[k].speed_factor # FactorOne
        /\ step2_log[m].adjust = "skipped"
        /\ original_segments[m].duration # original_segments[m].audio_file.new_duration

(* -------- create_video_segment_with_audio called on its own ----------- *)

\* "-t str(max(duration, 0.1))" of the re-encode command, ms
MinReencodeMs == 100

\* os.path.getsize(output_path) > 1024
MinFileBytes == 1024

\* sizes an output file may have, around the threshold; -1 for no file
FileSizes == {-1, 0, MinFileBytes - 1, MinFileBytes, MinFileBytes + 1}

\* os.path.exists(output_path) and os.path.getsize(output_path) > 1024
ValidFile(size) == size # -1 /\ size > MinFileBytes

\* the spans a caller may ask for: those of the grid, and one of a few ms
ExtractArgs ==
    {Span("speech", p[1], p[2]) : p \in Spans}
    \cup {Span("speech", t, t + Jitter) : t \in GridTimes}

\* one ffmpeg run of the extractor: its time range, exit status and output file
Attempt(name, ss, t, ok, size) ==
    Command(name, [ss |-> ss, t |-> t, size |-> size], ok)

\* every way one call can run: <<commands run, value returned>>
ExtractRuns(start, end) ==
    LET duration == end - start
        copy(ok, size)     == Attempt("extract_copy", start, duration, ok, size)
        reencode(ok, size) == Attempt("extract_reencode", start,
                                      Max(duration, MinReencodeMs), ok, size)
    IN  \* check=True: a non-zero exit raises CalledProcessError, caught below
        {<< <<copy(FALSE, size)>>, "False" >> : size \in FileSizes}
        \cup \* the copy left a valid file
        {<< <<copy(TRUE, size)>>, "True" >> : size \in {z \in FileSizes : ValidFile(z)}}
        \cup \* the copy left no valid file: the re-encode runs
        UNION {
          {<< <<copy(TRUE, size), reencode(FALSE, size2)>>, "False" >> :
              size2 \in FileSizes}
          \cup
          {<< <<copy(TRUE, size), reencode(TRUE, size2)>>,
              IF ValidFile(size2) THEN "True" ELSE "False" >> :
              size2 \in FileSizes} :
          size \in {z \in FileSizes : ~ValidFile(z)}}

InitExtract ==
    /\ pc = "extract_call"
    /\ \E a \in ExtractArgs : planned = <<a>>
    /\ step1_log = <<>>
    /\ artifacts = {}
    /\ result = "none"
    /\ video_duration = 0
    /\ audio_files = <<>>
    /\ current_time = 0
    /\ i = 1
    /\ original_segments = <<>>
    /\ speed_adjusted_segments = <<>>
    /\ final_segments = <<>>
    /\ normalized_segments = <<>>
    /\ output = NoOutput
    /\ extract_failed = FALSE
    /\ step2_log = <<>>
    /\ merge_returned = NoMerge
    /\ merge_failed_at = 0
    /\ commands = <<>>
    /\ merge_args = NoCall
    /\ scratch = FreshDir
    /\ written = {}
    /\ AdjustIdle
    /\ ElsewhereIdle

\* one call of create_video_segment_with_audio(input_video, start, end, output_path)
ExtractCall ==
    /\ pc = "extract_call"
    /\ \E run \in ExtractRuns(planned[1].start, planned[1].end) :
          /\ commands' = run[1]
          /\ result' = run[2]
          /\ extract_failed' = (run[2] = "False")
    /\ pc' = "extract_done"
    /\ UNCHANGED <<video_duration, audio_files, current_time, i, original_segments,
                   speed_adjusted_segments, final_segments, normalized_segments,
                   output, planned, step2_log, merge_returned, merge_failed_at,
                   merge_args, scratch, written, gpu, adjust_args, step1_log, artifacts, elsewhere>>

SpecExtract == InitExtract /\ [][ExtractCall]_vars

(* C20: the extractor runs the stream copy first and, whenever that left   *)
(* no valid file (non-zero exit, no output file, or one under 1 KiB), runs *)
(* the re-encode over the same time range; it returns False only after     *)
(* both commands have run and failed.                                      *)
C20_ReencodeAfterAnyCopyFailure ==
    pc = "extract_done" =>
        /\ commands[1].cmd = "extract_copy"
        /\ (~commands[1].ok \/ commands[1].arg.size < MinFileBytes) =>
              /\ Len(commands) = 2
              /\ commands[2].cmd = "extract_reencode"
              /\ commands[2].arg.ss = commands[1].arg.ss
              /\ commands[2].arg.t = commands[1].arg.t
        /\ result = "False" => Len(commands) = 2

(* --------- adjust_video_speed_with_audio called on its own ------------ *)

\* the variables of process_video_translation, before it has started
PipelineIdle ==
    /\ result = "none"
    /\ video_duration = 0
    /\ audio_files = <<>>
    /\ current_time = 0
    /\ i = 1
    /\ original_segments = <<>>
    /\ speed_adjusted_segments = <<>>
    /\ final_segments = <<>>
    /\ normalized_segments = <<>>
    /\ output = NoOutput
    /\ planned = <<>>
    /\ step1_log = <<>>
    /\ artifacts = {}
    /\ extract_failed = FALSE
    /\ step2_log = <<>>
    /\ merge_returned = NoMerge
    /\ merge_failed_at = 0
    /\ commands = <<>>

\* the speed factors step 2 may hand over
AdjustFactors ==
    UNION {{Factor(d, n) : n \in NewDurations(d) \ {0}} : d \in GridTimes \ {0}}

\* the ways a processor can be set up and find its hardware
GpuSetups == {[acceleration |-> a, available |-> v] : a, v \in BOOLEAN}

\* "[0:v]setpts={1/speed_factor}*PTS[v]" and "[0:a]atempo={speed_factor}[a]"
Filters(f) == [setpts |-> Factor(f.den, f.num), atempo |-> f]

\* mutant: the command is chosen by the setting alone
HardwareInUseIfAsked(g) == g.acceleration

\* "if self.gpu_acceleration and self.gpu_info['available']"
HardwareInUse(g) == g.acceleration /\ g.available

\* one ffmpeg run of the adjuster: its filters, whether it decodes with
\* "-hwaccel cuda", and its exit status
AdjustCommand(f, hw, ok) ==
    Command("adjust", [filters |-> Filters(f), hwaccel |-> hw], ok)

\* every way one call can run: <<commands run, value returned>>
AdjustRuns(g, f) ==
    LET hw == HardwareInUse(g)
    IN  {<< <<AdjustCommand(f, hw, TRUE)>>, "True" >>}
        \cup
        (IF hw
           THEN \* the software-only command, with check=True
                {<< <<AdjustCommand(f, TRUE, FALSE), AdjustCommand(f, FALSE, ok)>>,
                    IF ok THEN "True" ELSE "False" >> : ok \in BOOLEAN}
           ELSE \* raise CalledProcessError, caught by the except clause
                {<< <<AdjustCommand(f, FALSE, FALSE)>>, "False" >>})

InitAdjust ==
    /\ pc = "adjust_call"
    /\ gpu \in GpuSetups
    /\ \E f \in AdjustFactors : adjust_args = <<f>>
    /\ PipelineIdle
    /\ merge_args = NoCall
    /\ scratch = FreshDir
    /\ written = {}
    /\ ElsewhereIdle

\* one call of adjust_video_speed_with_audio(input_video, speed_factor, output_path)
AdjustCall ==
    /\ pc = "adjust_call"
    /\ \E run \in AdjustRuns(gpu, adjust_args[1]) :
          /\ commands' = run[1]
          /\ result' = run[2]
    /\ pc' = "adjust_done"
    /\ UNCHANGED <<video_duration, audio_files, current_time, i, original_segments,
                   speed_adjusted_segments, final_segments, normalized_segments,
                   output, planned, extract_failed, step2_log, merge_returned,
                   merge_failed_at>>
    /\ UNCHANGED <<step1_log, artifacts, aside>>

SpecAdjust == InitAdjust /\ [][AdjustCall]_vars

(* C21: in the Speed Adjuster a failed hardware-decode command is followed *)
(* by exactly one run of the software-only command with the same filters;  *)
(* the call returns False only if both failed; without hardware            *)
(* acceleration in use a single command is run and its failure returns     *)
(* False with no retry.                                                    *)
C21_OneSoftwareRetry ==
    pc = "adjust_done" =>
        LET hw == gpu.acceleration /\ gpu.available
        IN  /\ Len(commands) \in {1, 2}
            /\ commands[1].arg.hwaccel = hw
            /\ Len(commands) = 2 <=> (hw /\ ~commands[1].ok)
            /\ Len(commands) = 2 =>
                  /\ ~commands[2].arg.hwaccel
                  /\ commands[2].arg.filters = commands[1].arg.filters
            /\ commands[1].arg.filters = Filters(adjust_args[1])
            /\ result \in {"True", "False"}
            /\ result = "False" <=> \A k \in DOMAIN commands : ~commands[k].ok

\* the hardware-decode command failed and the software-only command succeeded
C21_Witness ==
    /\ pc = "adjust_done"
    /\ Len(commands) = 2
    /\ commands[1].arg.hwaccel
    /\ ~commands[1].ok
    /\ commands[2].ok
    /\ result = "True"

(* ------------------ gaps and tails after their silencing -------------- *)

\* the entries of step 1's list made from the span of call c
EntriesOf(c) ==
    {k \in DOMAIN original_segments :
        /\ original_segments[k].type = c.type
        /\ original_segments[k].start = c.start
        /\ original_segments[k].end = c.end}

(* C22: every kept gap or tail whose extraction returned True has exactly  *)
(* one entry in step 1's list: the silenced clip if                        *)
(* create_silent_audio_video returned True, the extracted clip itself      *)
(* otherwise; and a failed silencing does not end the run: every span      *)
(* step 1 asks for is answered, and step 1 returns nothing.                *)
C22_OneEntryPerKeptGap ==
    /\ \A j \in DOMAIN step1_log :
          LET c == step1_log[j]
          IN  (c.type \in {"gap", "tail"} /\ c.ok) =>
                /\ c.silent \in {"ok", "failed"}
                /\ Cardinality(EntriesOf(c)) = 1
                /\ \A k \in EntriesOf(c) :
                      original_segments[k].path.role =
                         IF c.silent = "ok"
                         THEN (IF c.type = "gap" THEN "step1_gap_silent"
                                                 ELSE "step1_tail_silent")
                         ELSE (IF c.type = "gap" THEN "step1_gap" ELSE "step1_tail")
    /\ Len(step1_log) = Len(planned)
    /\ \A j \in DOMAIN step1_log :
          planned[j] = Span(step1_log[j].type, step1_log[j].start, step1_log[j].end)
    /\ pc \in {"step1", "tail", "step2"} => result = "none"

\* a successful run with a gap whose silencing failed and a silenced tail
C22_Witness ==
    /\ SuccessfulRun
    /\ \E j, m \in DOMAIN step1_log :
          /\ step1_log[j].type = "gap"
          /\ step1_log[j].silent = "failed"
          /\ step1_log[m].type = "tail"
          /\ step1_log[m].silent = "ok"
    /\ Len(normalized_segments) = 3

(* --------------------- one path, one artifact -------------------------- *)

(* C23: within one run no two artifacts are written to the same path: two  *)
(* writes to one path are writes of the same kind of file for the same     *)
(* span.                                                                   *)
C23_OnePathOneArtifact ==
    \A a, b \in artifacts : a.path = b.path => a = b

(* --------------------- spans shorter than 0.1 s ------------------------ *)

(* C24: create_video_segment_with_audio, asked for a span shorter than     *)
(* 0.1 s, returns True and has run neither the stream-copy cut nor the     *)
(* re-encode cut.                                                          *)
C24_ShortSpanIsPlaceholder ==
    (pc = "extract_done" /\ planned[1].end - planned[1].start < MinReencodeMs) =>
        /\ result = "True"
        /\ \A k \in DOMAIN commands :
              commands[k].cmd \notin {"extract_copy", "extract_reencode"}

(* --------------------- how the run ends -------------------------------- *)

MaxTts == 2

\* TTS file names "tts_{start}_{end}_{hash}", numbered in the order of their names
TtsNames == 1..MaxTts

\* VideoProcessor is not running and has not run
ProcessorIdle ==
    /\ pc = "probe"
    /\ PipelineIdle
    /\ merge_args = NoCall
    /\ scratch = FreshDir
    /\ written = {}
    /\ AdjustIdle

RECURSIVE ByName(_)
\* tts_files.sort(key=lambda x: x.name), and validate_time_ranges keeps the order
ByName(files) ==
    IF files = {} THEN <<>>
    ELSE LET first == CHOOSE f \in files : \A g \in files : f <= g
         IN  <<first>> \o ByName(files \ {first})

\* f"segment_{i+1:02d}_{Path(tts_file).stem}.mp4"; n is i + 1
SegmentName(n, tts_file) == [n |-> n, stem |-> tts_file]

\* expected_segments of cleanup_invalid_cache
ExpectedSegments(valid) == {SegmentName(k, valid[k]) : k \in DOMAIN valid}

\* cleanup_invalid_cache(segment_dir, valid_tts_files)
CleanupInvalidCache(dir, valid) == dir \cap ExpectedSegments(valid)

InitSynth == ProcessorIdle /\ SynthIdle /\ SplitIdle /\ AsrIdle /\ TtsIdle

\* find_tts_files and validate_time_ranges; "if not valid_tts_files: return False"
SynthStart ==
    /\ synth_pc = "start"
    /\ \E files \in SUBSET TtsNames, debug \in BOOLEAN :
          /\ valid_tts_files' = ByName(files)
          /\ debug_export' = debug
          /\ IF files = {}
                THEN synth_pc' = "done" /\ synth_result' = "False"
                ELSE synth_pc' = "export" /\ synth_result' = "none"
    /\ synth_i' = 1
    /\ segments_info' = {}
    /\ UNCHANGED <<segment_dir, outside_synthesizer>>

\* one iteration of "for i, tts_file in enumerate(valid_tts_files)": the file
\* is skipped, or its segment is there already, or it is written, or the
\* write fails
SynthExport ==
    /\ synth_pc = "export"
    /\ LET name == SegmentName(synth_i, valid_tts_files[synth_i])
       IN  \/ UNCHANGED segment_dir
           \/ /\ name \notin segment_dir
              /\ segment_dir' = segment_dir \cup {name}
    /\ IF synth_i < Len(valid_tts_files)
          THEN synth_i' = synth_i + 1 /\ synth_pc' = "export"
          ELSE synth_i' = 1 /\ synth_pc' = "load"
    /\ UNCHANGED <<synth_result, valid_tts_files, segments_info, debug_export,
                   outside_synthesizer>>

\* segment_files = sorted(segment_dir.glob("segment_*.mp4")) and the loop that
\* loads them: a file whose VideoFileClip raises is left out
SynthLoad ==
    /\ synth_pc = "load"
    /\ \E loaded \in SUBSET segment_dir :
          /\ segments_info' = loaded
          /\ IF loaded = {}
                THEN synth_pc' = "done" /\ synth_result' = "False"
                ELSE synth_pc' = "assemble" /\ UNCHANGED synth_result
    /\ UNCHANGED <<segment_dir, valid_tts_files, synth_i, debug_export, outside_synthesizer>>

\* the final video is built from segments_info and written; then
\* "if not debug_export: cleanup_invalid_cache(...)"; an exception returns False
SynthAssemble ==
    /\ synth_pc = "assemble"
    /\ \/ /\ synth_result' = "True"
          /\ segment_dir' = IF debug_export THEN segment_dir
                            ELSE CleanupInvalidCache(segment_dir, valid_tts_files)
       \/ /\ synth_result' = "False"
          /\ UNCHANGED segment_dir
    /\ synth_pc' = "done"
    /\ UNCHANGED <<valid_tts_files, synth_i, segments_info, debug_export, outside_synthesizer>>

\* the function is called again, with the same output directory
SynthAgain ==
    /\ synth_pc = "done"
    /\ synth_pc' = "start"
    /\ UNCHANGED <<synth_result, segment_dir, valid_tts_files, synth_i,
                   segments_info, debug_export, outside_synthesizer>>

NextSynth == SynthStart \/ SynthExport \/ SynthLoad \/ SynthAssemble \/ SynthAgain

SpecSynth == InitSynth /\ [][NextSynth]_vars

(* C26: the final clip list is built only from segment files of the        *)
(* current run's valid TTS files: no segment file left by an earlier run   *)
(* with other TTS files is loaded.                                         *)
C26_OnlyCurrentSegmentsLoaded ==
    segments_info \subseteq ExpectedSegments(valid_tts_files)

(* ------------- split_segments_recursively (translator.py) --------------- *)

\* the longest list handed to the splitter
MaxSegs == 4

\* the largest chunk size asked for
MaxChunk == 2

\* the widest pause between two consecutive segments; the narrowest is -1,
\* two segments that overlap
MaxGap == 2

\* the deepest the calls may nest before the interpreter raises RecursionError
MaxDepth == 6

RECURSIVE Timed(_, _)
\* the segments whose pauses are gaps, the first one starting at `at`; each
\* has its own text
Timed(gaps, at) ==
    IF gaps = <<>> THEN <<>>
    ELSE LET start == at + Head(gaps)
         IN  <<[start |-> start, end |-> start + 1, text |-> Len(gaps)]>>
             \o Timed(Tail(gaps), start + 1)

\* the lists a caller may pass: any number of segments up to MaxSegs, any pauses
SegmentLists ==
    UNION {{Timed(<<1>> \o g, 0) : g \in [1..n -> (-1)..MaxGap]} : n \in 0..(MaxSegs - 1)}
    \cup {<<>>}

RECURSIVE LargestGapFrom(_, _, _, _)
\* the loop "for i in range(1, len(segments))" from index k on; indices as in
\* the code, from 0
LargestGapFrom(segments, k, max_gap, split_index) ==
    IF k >= Len(segments) THEN <<max_gap, split_index>>
    ELSE LET gap == segments[k + 1].start - segments[k].end
         IN  IF gap > max_gap
             THEN LargestGapFrom(segments, k + 1, gap, k)
             ELSE LargestGapFrom(segments, k + 1, max_gap, split_index)

find_largest_gap(segments) ==
    IF Len(segments) < 2 THEN <<0, -1>>
    ELSE LargestGapFrom(segments, 1, 0, -1)

\* mutant: no split point is forced when no pause is positive
ForcedSplitIndexNone(segments) == 0

\* split_index = len(segments) // 2
ForcedSplitIndex(segments) == Len(segments) \div 2

\* the index split_segments_recursively splits at
SplitIndex(segments) ==
    LET found == find_largest_gap(segments)
    IN  IF found[2] = -1 THEN ForcedSplitIndex(segments) ELSE found[2]

\* segments[:split_index]
LeftPart(segments, split_index) == SubSeq(segments, 1, split_index)

\* mutant: the right part starts one segment late
RightPartSkipping(segments, split_index) ==
    SubSeq(segments, split_index + 2, Len(segments))

\* segments[split_index:]
RightPart(segments, split_index) == SubSeq(segments, split_index + 1, Len(segments))

InitSplit ==
    /\ ProcessorIdle
    /\ SynthIdle
    /\ AsrIdle
    /\ TtsIdle
    /\ split_pc = "running"
    /\ split_input \in SegmentLists
    /\ max_segment_size \in 1..MaxChunk
    /\ split_stack = <<split_input>>
    /\ all_chunks = <<>>
    /\ split_calls = {}

\* "if len(segments) <= max_segment_size: return [segments]"
SplitReturn ==
    /\ split_pc = "running"
    /\ split_stack # <<>>
    /\ Len(Head(split_stack)) <= max_segment_size
    /\ all_chunks' = Append(all_chunks, Head(split_stack))
    /\ split_stack' = Tail(split_stack)
    /\ split_pc' = IF Tail(split_stack) = <<>> THEN "returned" ELSE "running"
    /\ UNCHANGED <<split_input, max_segment_size, split_calls, outside_translator>>

\* the list is too long: it is split and the function calls itself on the
\* left part, then on the right part; left_chunks + right_chunks keeps that
\* order. Calls nested deeper than the interpreter allows raise RecursionError.
SplitRecurse ==
    /\ split_pc = "running"
    /\ split_stack # <<>>
    /\ Len(Head(split_stack)) > max_segment_size
    /\ LET segments    == Head(split_stack)
           split_index == SplitIndex(segments)
           left_part   == LeftPart(segments, split_index)
           right_part  == RightPart(segments, split_index)
       IN  /\ split_calls' =
                  split_calls
                  \cup {[caller |-> Len(segments), called |-> Len(left_part)],
                        [caller |-> Len(segments), called |-> Len(right_part)]}
           /\ IF Len(split_stack) >= MaxDepth
                 THEN /\ split_pc' = "raised"
                      /\ UNCHANGED split_stack
                 ELSE /\ split_pc' = "running"
                      /\ split_stack' = <<left_part, right_part>> \o Tail(split_stack)
    /\ UNCHANGED <<split_input, max_segment_size, all_chunks, outside_translator>>

NextSplit == SplitReturn \/ SplitRecurse

SpecSplit == InitSplit /\ [][NextSplit]_vars

\* a call that can take a step does
SpecSplitLive == SpecSplit /\ WF_vars(NextSplit)

RECURSIVE Flat(_)
\* the chunks put end to end
Flat(chunks) == IF chunks = <<>> THEN <<>> ELSE Head(chunks) \o Flat(Tail(chunks))

\* what C27 says of the returned chunks
IsPartition ==
    /\ Flat(all_chunks) = split_input
    /\ \A k \in DOMAIN all_chunks :
          /\ all_chunks[k] # <<>>
          /\ Len(all_chunks[k]) <= max_segment_size

(* C27 as stated: for every input list the returned chunks, put end to     *)
(* end, are the input list, none is empty and none is longer than          *)
(* max_segment_size.                                                       *)
C27_PartitionOfAnyList ==
    split_pc = "returned" => IsPartition

(* C27, amended: the same for every input list that is not empty; the      *)
(* empty list comes back as one empty chunk.                               *)
C27_PartitionOfNonEmptyList ==
    split_pc = "returned" =>
        IF split_input = <<>> THEN all_chunks = << <<>> >> ELSE IsPartition

\* a list of four segments returned as three chunks, one of them of two
C27_Witness ==
    /\ split_pc = "returned"
    /\ Len(split_input) = 4
    /\ Len(all_chunks) = 3
    /\ max_segment_size = 2

(* C28: every call returns, also for lists without a positive pause: each  *)
(* recursive call is given a list that is not empty and is shorter than    *)
(* its caller's.                                                           *)
C28_Terminates ==
    /\ [](\A c \in split_calls : 0 < c.called /\ c.called < c.caller)
    /\ <>(split_pc = "returned")

\* a list without a positive pause, longer than the chunk size, has been
\* split by force and returned
C28_Witness ==
    /\ split_pc = "returned"
    /\ Len(split_input) >= 3
    /\ find_largest_gap(split_input)[2] = -1
    /\ Len(all_chunks) >= 3

(* ----------------------- perform_asr (asr.py) -------------------------- *)

\* the most segments the recognizer yields
MaxRecognized == 3

\* "if gap < 5", in ms
MergeGapMs == 5

\* round(x * 1000) for a time of h half milliseconds: a half goes to the even
\* neighbour
RoundMs(h) ==
    IF h % 2 = 0 THEN h \div 2
    ELSE IF (h \div 2) % 2 = 0 THEN h \div 2 ELSE h \div 2 + 1

\* pauses between recognized segments, in half ms, around the threshold
PausesHalfMs == {0, 2 * MergeGapMs - 2, 2 * MergeGapMs - 1, 2 * MergeGapMs,
                 2 * MergeGapMs + 1}

\* lengths of recognized segments, in half ms
LengthsHalfMs == {0, 3}

RECURSIVE Recognized(_, _, _)
\* the segments with the given <<pause, length>> pairs, the k-th one with text k
Recognized(pairs, at, k) ==
    IF pairs = <<>> THEN <<>>
    ELSE LET start == at + Head(pairs)[1]
             end   == start + Head(pairs)[2]
         IN  <<[start |-> start, end |-> end, text |-> <<k>>]>>
             \o Recognized(Tail(pairs), end, k + 1)

\* what the recognizer may yield
Recognitions ==
    UNION {{Recognized(q, 0, 1) : q \in [1..n -> PausesHalfMs \X LengthsHalfMs]} :
           n \in 0..MaxRecognized}

\* current_segment
CurrentSegment(segment) ==
    [start |-> RoundMs(segment.start), end |-> RoundMs(segment.end),
     text |-> segment.text]

\* mutant: only overlapping segments are merged
MergesIntoOverlapping(gap) == gap < 0

\* "if gap < 5"
MergesInto(gap) == gap < MergeGapMs

\* previous_segment['end'] = current_segment['end'] and
\* previous_segment['text'] += ' ' + current_segment['text']
Merged(previous_segment, current_segment) ==
    [start |-> previous_segment.start, end |-> current_segment.end,
     text |-> previous_segment.text \o current_segment.text]

InitAsr ==
    /\ ProcessorIdle
    /\ SynthIdle
    /\ SplitIdle
    /\ TtsIdle
    /\ asr_pc = "loop"
    /\ recognized \in Recognitions
    /\ asr_i = 1
    /\ asr_segments = <<>>
    /\ asr_results = NoResults

\* one iteration of "for i, segment in enumerate(segments)"
AsrSegment ==
    /\ asr_pc = "loop"
    /\ asr_i <= Len(recognized)
    /\ LET current_segment == CurrentSegment(recognized[asr_i])
           n               == Len(asr_segments)
       IN  IF asr_i > 1 /\ asr_segments # <<>>
           THEN LET previous_segment == asr_segments[n]
                    gap == current_segment.start - previous_segment.end
                IN  IF MergesInto(gap)
                    THEN asr_segments' =
                            [asr_segments EXCEPT
                               ![n] = Merged(previous_segment, current_segment)]
                    ELSE asr_segments' = Append(asr_segments, current_segment)
           ELSE asr_segments' = Append(asr_segments, current_segment)
    /\ asr_i' = asr_i + 1
    /\ UNCHANGED <<asr_pc, recognized, asr_results, outside_asr>>

\* asr_results = {'total_segments': len(asr_segments), 'segments': asr_segments}
AsrReturn ==
    /\ asr_pc = "loop"
    /\ asr_i > Len(recognized)
    /\ asr_results' = [total_segments |-> Len(asr_segments), segments |-> asr_segments]
    /\ asr_pc' = "returned"
    /\ UNCHANGED <<recognized, asr_i, asr_segments, outside_asr>>

NextAsr == AsrSegment \/ AsrReturn

SpecAsr == InitAsr /\ [][NextAsr]_vars

\* the texts of the list, put end to end
Texts(list) == Flat([k \in DOMAIN list |-> list[k].text])

(* C29: in the list perform_asr builds and returns, consecutive segments   *)
(* are at least 5 ms apart; every segment runs from the start of the first *)
(* recognized segment merged into it to the end of the last one and        *)
(* carries their texts, so that the texts of the list are those            *)
(* recognized so far, in their order.                                      *)
C29_GapsOfFiveMs ==
    /\ \A k \in 1..(Len(asr_segments) - 1) :
          asr_segments[k + 1].start - asr_segments[k].end >= MergeGapMs
    /\ Texts(asr_segments) = [k \in 1..(asr_i - 1) |-> k]
    /\ \A k \in DOMAIN asr_segments :
          LET t == asr_segments[k].text
          IN  /\ t # <<>>
              /\ asr_segments[k].start = RoundMs(recognized[t[1]].start)
              /\ asr_segments[k].end = RoundMs(recognized[t[Len(t)]].end)
    /\ asr_pc = "returned" =>
          /\ asr_results.segments = asr_segments
          /\ asr_results.total_segments = Len(asr_segments)

\* three segments recognized, the second one 4 ms after the first and merged
\* into it, the third one 5 ms later and kept apart
C29_Witness ==
    /\ asr_pc = "returned"
    /\ Len(recognized) = 3
    /\ Len(asr_results.segments) = 2
    /\ asr_results.segments[1].text = <<1, 2>>
    /\ RoundMs(recognized[2].start) - RoundMs(recognized[1].end) = MergeGapMs - 1
    /\ asr_results.segments[2].start - asr_results.segments[1].end = MergeGapMs

(* ------------------ tts_from_translated_json (tts.py) ------------------- *)

\* the most segments a translated JSON holds
MaxJson == 2

\* the segments a JSON may hold, each with its own start, end and text
JsonSegments == 1..MaxJson

\* the translated JSON files: some of the segments, in the order of their times
Jsons == {ByName(segs) : segs \in SUBSET JsonSegments}

\* f"tts_{start_time}_{end_time}_{text_hash}.wav"
OutputFilename(segment) == [start |-> segment, end |-> segment, text_hash |-> segment]

\* the file names of a JSON
FilesOf(json) == {OutputFilename(json[k]) : k \in DOMAIN json}

\* mutant: the file is made again whether it is there or not
CacheHitNever(output_filename, dir) == FALSE

\* os.path.exists(output_path)
CacheHit(output_filename, dir) == output_filename \in dir

InitTts == ProcessorIdle /\ SynthIdle /\ SplitIdle /\ AsrIdle /\ TtsIdle

\* the JSON is read and the client made; Client(...) raises when the service
\* cannot be reached
TtsStart ==
    /\ tts_pc = "start"
    /\ \E json \in Jsons : tts_json' = json
    /\ \/ tts_pc' = "loop"
       \/ tts_pc' = "raised"
    /\ tts_i' = 1
    /\ current_task_files' = {}
    /\ tts_calls' = 0
    /\ dir_at_start' = output_dir
    /\ undeleted' = {}
    /\ UNCHANGED <<output_dir, tts_prev, outside_tts>>

\* one iteration of "for i, segment in enumerate(data['segments'])": a cache
\* hit, or a call of the service that gives a file, gives nothing or raises
TtsSegment ==
    /\ tts_pc = "loop"
    /\ tts_i <= Len(tts_json)
    /\ LET output_filename == OutputFilename(tts_json[tts_i])
       IN  /\ current_task_files' = current_task_files \cup {output_filename}
           /\ IF CacheHit(output_filename, output_dir)
                 THEN UNCHANGED <<output_dir, tts_calls>>
                 ELSE /\ tts_calls' = tts_calls + 1
                      /\ \/ output_dir' = output_dir \cup {output_filename}
                         \/ UNCHANGED output_dir
    /\ tts_i' = tts_i + 1
    /\ UNCHANGED <<tts_pc, tts_json, tts_prev, dir_at_start, undeleted, outside_tts>>

\* cleanup_unused_files(output_dir, current_task_files): a file whose
\* os.remove raises stays, and all of them stay when os.listdir raises
TtsCleanup ==
    /\ tts_pc = "loop"
    /\ tts_i > Len(tts_json)
    /\ LET files_to_delete == output_dir \ current_task_files
       IN  \E failed \in SUBSET files_to_delete :
              /\ output_dir' = output_dir \ (files_to_delete \ failed)
              /\ undeleted' = failed
    /\ tts_pc' = "returned"
    /\ UNCHANGED <<tts_json, tts_i, current_task_files, tts_calls, tts_prev,
                   dir_at_start, outside_tts>>

\* the function is called again on the same output directory
TtsAgain ==
    /\ tts_pc \in {"returned", "raised"}
    /\ tts_prev' = [json |-> tts_json,
                    complete |-> tts_pc = "returned" /\ FilesOf(tts_json) \subseteq output_dir]
    /\ tts_pc' = "start"
    /\ UNCHANGED <<tts_json, tts_i, output_dir, current_task_files, tts_calls,
                   dir_at_start, undeleted, outside_tts>>

NextTts == TtsStart \/ TtsSegment \/ TtsCleanup \/ TtsAgain

SpecTts == InitTts /\ [][NextTts]_vars

\* this run is on the JSON of the run before, which left every file
SecondRun ==
    /\ tts_pc \in {"loop", "returned"}
    /\ tts_prev.complete
    /\ tts_prev.json = tts_json

(* C30 as stated: a second run on the same JSON calls the service for no   *)
(* segment and leaves the set of tts_*.wav files as it was; and after any  *)
(* run the directory holds only files named for segments of the current    *)
(* JSON.                                                                   *)
C30_IdempotentAndClean ==
    /\ SecondRun => tts_calls = 0
    /\ (SecondRun /\ tts_pc = "returned") => output_dir = dir_at_start
    /\ tts_pc \in {"returned", "raised"} => output_dir \subseteq FilesOf(tts_json)

(* C30, amended: a second run on the same JSON calls the service for no    *)
(* segment, keeps every file of the JSON and adds none; after a run that   *)
(* has returned, the only files not named for a segment of the current     *)
(* JSON are those its cleanup could not remove, and a run that raises      *)
(* before its loop leaves the directory as it found it.                    *)
C30_IdempotentCleanIfRemoved ==
    /\ SecondRun => tts_calls = 0
    /\ (SecondRun /\ tts_pc = "returned") =>
          /\ FilesOf(tts_json) \subseteq output_dir
          /\ output_dir \subseteq dir_at_start
          /\ undeleted = {} => output_dir = FilesOf(tts_json)
    /\ tts_pc = "returned" => (output_dir \ FilesOf(tts_json)) \subseteq undeleted
    /\ tts_pc = "raised" => output_dir = dir_at_start

\* a second run on a JSON of two segments has returned without a call, the
\* directory holding their two files as before
C30_Witness ==
    /\ SecondRun
    /\ tts_pc = "returned"
    /\ Len(tts_json) = 2
    /\ tts_calls = 0
    /\ output_dir = dir_at_start
    /\ output_dir = FilesOf(tts_json)

=============================================================================
